---- MODULE Spec2Model ----
(***************************************************************************)
(* Model of rag_gemini_embeddings.py: the embedding client, the vector     *)
(* store client (upsert, similarity search) and the chat_with_rag          *)
(* orchestrator.                                                           *)
(*                                                                         *)
(* Representation.                                                         *)
(*  - A Python str is a sequence of tokens (each token a fragment of       *)
(*    text); "" is << >>, concatenation is \o, "x contains y" is           *)
(*    "y is a contiguous sub-sequence of x".                               *)
(*  - An Optional value is a record [given, v]; Python truthiness          *)
(*    (`if x:`) is Truthy.                                                 *)
(*  - A dict is a function whose domain is its set of keys.                *)
(*  - A call that may raise yields [raised, value]; a raise inside a       *)
(*    callee propagates unless the caller's code has a try/except there.   *)
(*  - A float score is the rational n / ScoreDen, held as n; a rounded     *)
(*    score is held in thousandths.                                        *)
(*  - The three remote services are the environment: each call's outcome   *)
(*    is an input of the action that makes the call.                       *)
(***************************************************************************)
EXTENDS Integers, Sequences, FiniteSets, TLC

VARIABLES store, latest, call

vars == <<store, latest, call>>

(* ------------------------- program constants -------------------------- *)

\* size=768 of the collection, and the length of the fallback vector
EMBED_DIM == 768
\* limit=3 passed by chat_with_rag
TOP_K == 3
\* default of search_similar_chunks' limit parameter
DEFAULT_LIMIT == 3
\* session_history[-3:]
HISTORY_WINDOW == 3
\* round(score, 3)
SCORE_DIGITS == 3

(* ------------------------------ bounds -------------------------------- *)

\* chunk ids the ingestion calls draw from
NumIds == 2
\* points of the indexed book the chat specification starts from
CorpusSize == 4
\* longest session history passed to chat_with_rag
MaxHistory == 4
\* scores are the rationals n / ScoreDen
ScoreDen == 16

(* ------------------------- Python value model ------------------------- *)

None == [given |-> FALSE, v |-> << >>]

Some(x) == [given |-> TRUE, v |-> x]

\* `if x:` for an Optional[str] or an optional list
Truthy(o) == o.given /\ o.v # << >>

\* dict.get(key, default)
Get(d, key, default) == IF key \in DOMAIN d THEN d[key] ELSE default

Return(x) == [raised |-> FALSE, value |-> x]

Raise(e) == [raised |-> TRUE, value |-> e]

\* y occurs in x
Contains(x, y) ==
    \E i \in 0..(Len(x) - Len(y)) : \A j \in 1..Len(y) : x[i + j] = y[j]

(* --------------------------- embedding client ------------------------- *)

\* A list of floats, held sparsely: its length and its non-zero elements as
\* <<index, value>> pairs.
Vector(dim, nz) == [dim |-> dim, nz |-> nz]

VecLen(v) == v.dim

\* [0.0] * n
Zeros(n) == Vector(n, {})

\* what genai.embed_content can do: answer with a vector of the model's
\* dimensionality, answer with a vector of another dimensionality, or fail
ProviderVectors ==
    { Vector(EMBED_DIM, {<<1, 3>>, <<EMBED_DIM, 4>>}),
      Vector(EMBED_DIM - 1, {<<1, 1>>}) }

EmbedOutcomes ==
    {[kind |-> "ok", embedding |-> v] : v \in ProviderVectors}
    \cup {[kind |-> "error", embedding |-> Zeros(0)]}

\* generate_embedding without its try/except: the provider's failure propagates
generate_embedding_unguarded(out) ==
    IF out.kind = "ok" THEN Return(out.embedding) ELSE Raise(<<"embedding failed">>)

\* generate_embedding with a fallback vector one element short
generate_embedding_shortzero(out) ==
    IF out.kind = "ok" THEN Return(out.embedding) ELSE Return(Zeros(EMBED_DIM - 1))

generate_embedding(out) ==
    IF out.kind = "ok" THEN Return(out.embedding) ELSE Return(Zeros(EMBED_DIM))

(* ------------------------------ vector store -------------------------- *)

ChunkId(i) == "c" \o ToString(i)

ChunkIds == {ChunkId(i) : i \in 1..NumIds}

CorpusIds == {ChunkId(i) : i \in 1..CorpusSize}

\* the number in a chunk id
IdIndexOf ==
    [id \in {ChunkId(i) : i \in 1..(NumIds + CorpusSize)} |->
        CHOOSE i \in 1..(NumIds + CorpusSize) : ChunkId(i) = id]

IdIndex(id) == IdIndexOf[id]

\* qdrant_client.upsert of one point: the point replaces the one of the same id;
\* the write fails when the service does or when the vector is not of the
\* collection's size
QdrantUpsert(s, point, out) ==
    IF out = "error" \/ VecLen(point.vector) # EMBED_DIM
    THEN [raised |-> TRUE, store |-> s]
    ELSE [raised |-> FALSE, store |-> {p \in s : p.id # point.id} \cup {point}]

\* the payload dict of upsert_document with chapter and section swapped
Payload_swapped(text, metadata) ==
    [text      |-> text,
     chapter   |-> Get(metadata, "section", << >>),
     section   |-> Get(metadata, "chapter", << >>),
     file_path |-> Get(metadata, "file_path", << >>)]

Payload(text, metadata) ==
    [text      |-> text,
     chapter   |-> Get(metadata, "chapter", << >>),
     section   |-> Get(metadata, "section", << >>),
     file_path |-> Get(metadata, "file_path", << >>)]

PointStruct(id, vector, payload) == [id |-> id, vector |-> vector, payload |-> payload]

\* upsert_document that gives up when the embedding is the fallback vector
upsert_document_skipzero(s, chunk_id, text, metadata, embedOut, storeOut) ==
    LET emb == generate_embedding(embedOut) IN
    IF emb.raised \/ emb.value = Zeros(EMBED_DIM)
    THEN [raised |-> emb.raised, store |-> s, sent |-> << >>]
    ELSE LET point == PointStruct(chunk_id, emb.value, Payload(text, metadata))
             w     == QdrantUpsert(s, point, storeOut)
         IN  [raised |-> w.raised, store |-> w.store, sent |-> <<point>>]

upsert_document(s, chunk_id, text, metadata, embedOut, storeOut) ==
    LET emb == generate_embedding(embedOut) IN
    IF emb.raised
    THEN [raised |-> TRUE, store |-> s, sent |-> << >>]
    ELSE LET point == PointStruct(chunk_id, emb.value, Payload(text, metadata))
             w     == QdrantUpsert(s, point, storeOut)
         IN  [raised |-> w.raised, store |-> w.store, sent |-> <<point>>]

\* the scores the store gives the points for one query: one of two rankings,
\* rising with the id and falling with the id
ScoreOracles ==
    { [id \in ChunkIds \cup CorpusIds |-> 2 * IdIndex(id) - 3],
      [id \in ChunkIds \cup CorpusIds |-> ScoreDen - 3 * IdIndex(id)] }

StoreQueryOutcomes ==
    {[kind |-> "ok", score |-> f] : f \in ScoreOracles}
    \cup {[kind |-> "error", score |-> << >>]}

\* the points of S by descending score
RECURSIVE SortDesc(_, _)
SortDesc(S, score) ==
    IF S = {} THEN << >>
    ELSE LET best == CHOOSE p \in S : \A q \in S : score[p.id] >= score[q.id]
         IN  <<best>> \o SortDesc(S \ {best}, score)

Take(seq, n) == SubSeq(seq, 1, IF n < Len(seq) THEN n ELSE Len(seq))

\* Filter(must=[FieldCondition(key="chapter", match=MatchValue(value=...))])
Matches(point, query_filter) ==
    \/ ~query_filter.given
    \/ /\ query_filter.v.key \in DOMAIN point.payload
       /\ point.payload[query_filter.v.key] = query_filter.v.value

\* qdrant_client.query_points(...).points: the `limit` best-scoring points that
\* satisfy the filter, best first, each with its payload and score; the query
\* fails when the service does or when the vector is not of the collection's size
QueryPoints(s, query, limit, query_filter, out) ==
    IF out.kind = "error" \/ VecLen(query) # EMBED_DIM
    THEN Raise(<<"search failed">>)
    ELSE LET hits == Take(SortDesc({p \in s : Matches(p, query_filter)}, out.score), limit)
         IN  Return([i \in 1..Len(hits) |->
                        [id |-> hits[i].id, payload |-> hits[i].payload,
                         score |-> out.score[hits[i].id]]])

\* lines 74-83 matching on the section field
SearchFilter_section(chapter_filter) ==
    IF Truthy(chapter_filter)
    THEN Some([key |-> "section", value |-> chapter_filter.v])
    ELSE None

SearchFilter(chapter_filter) ==
    IF Truthy(chapter_filter)
    THEN Some([key |-> "chapter", value |-> chapter_filter.v])
    ELSE None

Chunk(result) ==
    [text      |-> Get(result.payload, "text", << >>),
     chapter   |-> Get(result.payload, "chapter", << >>),
     section   |-> Get(result.payload, "section", << >>),
     score     |-> result.score,
     file_path |-> Get(result.payload, "file_path", << >>)]

\* search_similar_chunks without the try/except around the query
search_similar_chunks_unguarded(s, query, limit, chapter_filter, embedOut, storeOut) ==
    LET emb == generate_embedding(embedOut) IN
    IF emb.raised
    THEN [raised |-> TRUE, value |-> << >>, sent |-> << >>, ids |-> << >>]
    ELSE LET q  == [query |-> emb.value, limit |-> limit,
                    query_filter |-> SearchFilter(chapter_filter)]
             rs == QueryPoints(s, q.query, q.limit, q.query_filter, storeOut)
         IN  IF rs.raised
             THEN [raised |-> TRUE, value |-> << >>, sent |-> <<q>>, ids |-> << >>]
             ELSE [raised |-> FALSE,
                   value  |-> [i \in 1..Len(rs.value) |-> Chunk(rs.value[i])],
                   sent   |-> <<q>>,
                   ids    |-> [i \in 1..Len(rs.value) |-> rs.value[i].id]]

search_similar_chunks(s, query, limit, chapter_filter, embedOut, storeOut) ==
    LET emb == generate_embedding(embedOut) IN
    IF emb.raised
    THEN [raised |-> TRUE, value |-> << >>, sent |-> << >>, ids |-> << >>]
    ELSE LET q  == [query |-> emb.value, limit |-> limit,
                    query_filter |-> SearchFilter(chapter_filter)]
             rs == QueryPoints(s, q.query, q.limit, q.query_filter, storeOut)
         IN  IF rs.raised
             THEN [raised |-> FALSE, value |-> << >>, sent |-> <<q>>, ids |-> << >>]
             ELSE [raised |-> FALSE,
                   value  |-> [i \in 1..Len(rs.value) |-> Chunk(rs.value[i])],
                   sent   |-> <<q>>,
                   ids    |-> [i \in 1..Len(rs.value) |-> rs.value[i].id]]

(* ------------------------------ chat_with_rag ------------------------- *)

NL == "\n"

ROLE == "You are a helpful AI assistant for a Physical AI & Humanoid Robotics textbook."

SELECTED_HEADER == "The user selected this text:"

QUOTE == "\""

ASKED == "And asked: "

USER_QUESTION == "User question: "

CONTEXT_HEADER == "Relevant context from the book:"

HISTORY_HEADER == "Previous conversation:"

FOCUS_INSTRUCTION ==
    "Provide a clear, educational answer focusing on the selected text and the question. Format your response with:"

CONTEXT_INSTRUCTION ==
    "Provide a clear, educational answer based on the context. Format your response with:"

FORMAT_RULES ==
    <<"- Clear explanations", NL, "- Bullet points for lists", NL,
      "- **Bold** for important terms", NL, "- Proper paragraphs">>

FALLBACK_INSTRUCTION ==
    "If the context doesn't contain enough information, say so and provide general knowledge about the topic."

ANSWER == "Answer:"

APOLOGY ==
    "Sorry, I encountered an error while generating the response. Please try again. Error: "

\* sep.join(parts)
RECURSIVE Join(_, _)
Join(sep, parts) ==
    IF Len(parts) = 0 THEN << >>
    ELSE IF Len(parts) = 1 THEN parts[1]
    ELSE parts[1] \o sep \o Join(sep, Tail(parts))

\* "\n\n".join(f"[Chapter: {chunk['chapter']}]\n{chunk['text']}" for chunk in chunks)
Context(chunks) ==
    Join(<<NL, NL>>,
         [i \in 1..Len(chunks) |->
            <<"[Chapter: ">> \o chunks[i].chapter \o <<"]", NL>> \o chunks[i].text])

\* seq[-n:]
LastN(seq, n) == SubSeq(seq, IF Len(seq) > n THEN Len(seq) - n + 1 ELSE 1, Len(seq))

\* seq[:n], a window at the wrong end of the history
FirstN(seq, n) == SubSeq(seq, 1, IF Len(seq) > n THEN n ELSE Len(seq))

\* f"\nUser: {msg['question']}\nAssistant: {msg['answer']}\n"
RenderTurn(msg) ==
    <<NL, "User: ">> \o msg.question \o <<NL, "Assistant: ">> \o msg.answer \o <<NL>>

\* the loop `for msg in msgs: history_text += ...`
RECURSIVE RenderTurns(_)
RenderTurns(msgs) ==
    IF Len(msgs) = 0 THEN << >> ELSE RenderTurn(Head(msgs)) \o RenderTurns(Tail(msgs))

\* lines 127-131 with the slice session_history[:3]
HistoryText_first(session_history) ==
    IF Truthy(session_history)
    THEN RenderTurns(FirstN(session_history.v, HISTORY_WINDOW))
    ELSE << >>

HistoryText(session_history) ==
    IF Truthy(session_history)
    THEN RenderTurns(LastN(session_history.v, HISTORY_WINDOW))
    ELSE << >>

SelectedPrompt(selected_text, question, context, history_text) ==
    <<ROLE, NL, NL, SELECTED_HEADER, NL, QUOTE>> \o selected_text \o <<QUOTE, NL, NL, ASKED>>
    \o question \o <<NL, NL, CONTEXT_HEADER, NL>> \o context
    \o <<NL, NL, HISTORY_HEADER, NL>> \o history_text
    \o <<NL, NL, FOCUS_INSTRUCTION, NL>> \o FORMAT_RULES \o <<NL, NL, ANSWER>>

PlainPrompt(question, context, history_text) ==
    <<ROLE, NL, NL, USER_QUESTION>>
    \o question \o <<NL, NL, CONTEXT_HEADER, NL>> \o context
    \o <<NL, NL, HISTORY_HEADER, NL>> \o history_text
    \o <<NL, NL, CONTEXT_INSTRUCTION, NL>> \o FORMAT_RULES
    \o <<NL, NL, FALLBACK_INSTRUCTION, NL, NL, ANSWER>>

\* lines 133-174 with the two templates the wrong way round
Prompt_inverted(selected_text, question, context, history_text) ==
    IF Truthy(selected_text)
    THEN PlainPrompt(question, context, history_text)
    ELSE SelectedPrompt(selected_text.v, question, context, history_text)

Prompt(selected_text, question, context, history_text) ==
    IF Truthy(selected_text)
    THEN SelectedPrompt(selected_text.v, question, context, history_text)
    ELSE PlainPrompt(question, context, history_text)

\* round(x, digits) of the float x = n / ScoreDen, in units of 10^-digits:
\* to the nearest, an exact tie to the even neighbour
Round(n, digits) ==
    LET num == n * (10 ^ digits)
        q   == num \div ScoreDen
        r   == num % ScoreDen
    IN  IF 2 * r < ScoreDen THEN q
        ELSE IF 2 * r > ScoreDen THEN q + 1
        ELSE IF q % 2 = 0 THEN q ELSE q + 1

Source(chunk) ==
    [chapter |-> chunk.chapter, section |-> chunk.section,
     score |-> Round(chunk.score, SCORE_DIGITS)]

\* lines 182-189 building the list back to front
Sources_reversed(chunks) ==
    [i \in 1..Len(chunks) |-> Source(chunks[Len(chunks) + 1 - i])]

Sources(chunks) == [i \in 1..Len(chunks) |-> Source(chunks[i])]

\* what gemini_model.generate_content(prompt) and response.text can do:
\* give a text, fail in the call, or fail reading the text of a blocked response
GenerateOutcomes ==
    { [kind |-> "ok", text |-> <<"Humanoid robots balance with ZMP control.">>],
      [kind |-> "error", text |-> <<"429 Resource has been exhausted">>],
      [kind |-> "blocked", text |-> <<"response.text requires a valid Part">>] }

\* lines 196-201 returning the retrieved sources with the apology
GenerateFailed_keepsources(detail, chunks) ==
    [raised |-> FALSE, answer |-> <<APOLOGY>> \o detail, sources |-> Sources(chunks)]

GenerateFailed(detail, chunks) ==
    [raised |-> FALSE, answer |-> <<APOLOGY>> \o detail, sources |-> << >>]

chat_with_rag(s, question, session_history, selected_text, chapter_filter, embedOut, storeOut, genOut) ==
    LET found == search_similar_chunks(s, question, TOP_K, chapter_filter, embedOut, storeOut)
        chunks == found.value
        context == Context(chunks)
        history_text == HistoryText(session_history)
        prompt == Prompt(selected_text, question, context, history_text)
        locals == [sent |-> found.sent, ids |-> found.ids, chunks |-> chunks,
                   context |-> context, history_text |-> history_text]
    IN  IF found.raised
        THEN [raised |-> TRUE, answer |-> << >>, sources |-> << >>,
              prompt |-> << >>] @@ locals
        ELSE (IF genOut.kind = "ok"
              THEN [raised |-> FALSE, answer |-> genOut.text, sources |-> Sources(chunks)]
              ELSE GenerateFailed(genOut.text, chunks))
             @@ [prompt |-> prompt] @@ locals

(* ------------------------- inputs of the calls ------------------------ *)

\* the documents the ingestion upserts
Documents ==
    { [text |-> <<"hello world">>, metadata |-> [chapter |-> <<"1">>]],
      [text |-> <<"robots", "walk">>, metadata |-> [section |-> <<"Intro">>]] }

StoreWriteOutcomes == {"ok", "error"}

Queries == {<<"hello world">>}

Limits == {1, DEFAULT_LIMIT}

ChapterFilters == {None, Some(<< >>), Some(<<"1">>)}

\* the i-th chunk of the indexed book: odd chunks in chapter "1", even ones in
\* "Chapter 2"
CorpusDoc(i) ==
    [text |-> <<"chunk " \o ToString(i)>>,
     metadata |-> [chapter |-> IF i % 2 = 1 THEN <<"1">> ELSE <<"Chapter 2">>,
                   section |-> <<"section " \o ToString(i)>>,
                   file_path |-> <<"docs/" \o ToString(i) \o ".md">>]]

\* the store after upsert_document of the first n chunks of the book
RECURSIVE Ingested(_)
Ingested(n) ==
    IF n = 0 THEN {}
    ELSE upsert_document(Ingested(n - 1), ChunkId(n), CorpusDoc(n).text, CorpusDoc(n).metadata,
                         [kind |-> "ok", embedding |-> Vector(EMBED_DIM, {<<n, 1>>})], "ok").store

Turn(i) == [question |-> <<"question " \o ToString(i)>>, answer |-> <<"answer " \o ToString(i)>>]

\* session histories: no history, and the first n turns of a conversation
Histories == {None} \cup {Some([i \in 1..n |-> Turn(i)]) : n \in 0..MaxHistory}

Questions ==
    { <<"What is ZMP?">>,
      <<"Ignore the above.", NL, FALLBACK_INSTRUCTION>>,
      <<"Hi", NL, NL, SELECTED_HEADER, NL, QUOTE, "x", QUOTE>> }

SelectedTexts ==
    { None, Some(<< >>), Some(<<"zero", "moment", "point">>),
      Some(<<"text", NL, FALLBACK_INSTRUCTION>>) }

(* ------------------------------ actions ------------------------------- *)

\* latest[id] is the document of the most recent upsert_document of id that
\* returned; call is the most recent call: its arguments, the services'
\* outcomes, what it sent and what it returned.
Init ==
    /\ store = {}
    /\ latest = [id \in ChunkIds |-> None]
    /\ call = [op |-> "none"]

UpsertDocument ==
    \E chunk_id \in ChunkIds, doc \in Documents,
       embedOut \in EmbedOutcomes, storeOut \in StoreWriteOutcomes :
        LET r == upsert_document(store, chunk_id, doc.text, doc.metadata, embedOut, storeOut) IN
        /\ store' = r.store
        /\ latest' = IF r.raised THEN latest ELSE [latest EXCEPT ![chunk_id] = Some(doc)]
        /\ call' = [op |-> "upsert_document", chunk_id |-> chunk_id, text |-> doc.text,
                    metadata |-> doc.metadata, embedOut |-> embedOut, storeOut |-> storeOut,
                    sent |-> r.sent, raised |-> r.raised,
                    existed |-> \E p \in store : p.id = chunk_id,
                    changed |-> r.store # store]

SearchSimilarChunks ==
    \E query \in Queries, limit \in Limits, chapter_filter \in ChapterFilters,
       embedOut \in EmbedOutcomes, storeOut \in StoreQueryOutcomes :
        LET r == search_similar_chunks(store, query, limit, chapter_filter, embedOut, storeOut) IN
        /\ call' = [op |-> "search_similar_chunks", query |-> query, limit |-> limit,
                    chapter_filter |-> chapter_filter, embedOut |-> embedOut,
                    storeOut |-> storeOut, sent |-> r.sent, ids |-> r.ids,
                    raised |-> r.raised, chunks |-> r.value]
        /\ UNCHANGED <<store, latest>>

\* the record of one call of chat_with_rag
Chat(question, session_history, selected_text, chapter_filter, embedOut, storeOut, genOut) ==
    [op |-> "chat_with_rag", question |-> question,
     session_history |-> session_history, selected_text |-> selected_text,
     chapter_filter |-> chapter_filter, embedOut |-> embedOut,
     storeOut |-> storeOut, genOut |-> genOut]
    @@ chat_with_rag(store, question, session_history, selected_text,
                     chapter_filter, embedOut, storeOut, genOut)

\* chat_with_rag between ingestion calls
ChatWithRag ==
    \E chapter_filter \in {None, Some(<<"1">>)},
       embedOut \in {o \in EmbedOutcomes : VecLen(o.embedding) # EMBED_DIM - 1},
       genOut \in {g \in GenerateOutcomes : g.kind # "blocked"} :
        /\ call' = Chat(<<"What is ZMP?">>, None, None, chapter_filter, embedOut,
                        [kind |-> "ok",
                         score |-> CHOOSE f \in ScoreOracles : f[ChunkId(1)] < 0],
                        genOut)
        /\ UNCHANGED <<store, latest>>

Next == UpsertDocument \/ SearchSimilarChunks \/ ChatWithRag

Spec == Init /\ [][Next]_vars

(* ----------------- chat_with_rag over the indexed book ---------------- *)

InitChat ==
    /\ store = Ingested(CorpusSize)
    /\ latest = [id \in CorpusIds |-> Some(CorpusDoc(IdIndex(id)))]
    /\ call = [op |-> "none"]

\* every combination of the three services' outcomes and of the chapter filter
ChatOutcomes ==
    \E selected_text \in {None, Some(<<"zero", "moment", "point">>)},
       chapter_filter \in ChapterFilters \cup {Some(<<"Chapter 2">>), Some(<<"Chapter">>)},
       embedOut \in EmbedOutcomes, storeOut \in StoreQueryOutcomes,
       genOut \in GenerateOutcomes :
        /\ call' = Chat(<<"What is ZMP?">>, None, selected_text, chapter_filter,
                        embedOut, storeOut, genOut)
        /\ UNCHANGED <<store, latest>>

\* every combination of question, history and selected text
ChatPrompts ==
    \E question \in Questions, session_history \in Histories,
       selected_text \in SelectedTexts,
       storeOut \in {o \in StoreQueryOutcomes : o.kind = "error" \/ o.score[ChunkId(1)] < 0} :
        /\ call' = Chat(question, session_history, selected_text, None,
                        [kind |-> "ok",
                         embedding |-> Vector(EMBED_DIM, {<<1, 3>>, <<EMBED_DIM, 4>>})],
                        storeOut,
                        [kind |-> "ok",
                         text |-> <<"Humanoid robots balance with ZMP control.">>])
        /\ UNCHANGED <<store, latest>>

NextChat == ChatOutcomes \/ ChatPrompts

SpecChat == InitChat /\ [][NextChat]_vars

(* ------------------------------- claims ------------------------------- *)

IsChat == call.op = "chat_with_rag"

IsSearch == call.op = "search_similar_chunks"

IsUpsert == call.op = "upsert_document"

\* the vector-store query of the last call failed
QueryFailed ==
    call.storeOut.kind = "error" \/ VecLen(call.sent[1].query) # EMBED_DIM

\* C1: every call of chat_with_rag, whatever the embedding provider, the
\* vector-store search and the generation provider do, returns (does not
\* raise) an answer that is a string and sources that are a sequence of
\* {chapter, section, score} entries.
C1_ChatAlwaysReturns ==
    IsChat =>
        /\ ~call.raised
        /\ call.answer \in Seq(STRING)
        /\ DOMAIN call.sources = 1..Len(call.sources)
        /\ \A i \in 1..Len(call.sources) :
              DOMAIN call.sources[i] = {"chapter", "section", "score"}

\* C1 witness: a call in which all three services failed, and which returned.
C1_Witness ==
    /\ IsChat
    /\ call.embedOut.kind = "error"
    /\ call.storeOut.kind = "error"
    /\ call.genOut.kind = "error"
    /\ ~call.raised
    /\ Len(call.answer) > 0

\* C3: when the generation provider fails, the answer is the apology text
\* followed by the error detail and the sources are empty, also when the
\* search retrieved chunks.
C3_GenerationFailure ==
    (IsChat /\ call.genOut.kind # "ok") =>
        /\ call.answer = <<APOLOGY>> \o call.genOut.text
        /\ call.sources = << >>

\* C3 witness: the generation failed after the search had retrieved chunks.
C3_Witness ==
    /\ IsChat
    /\ call.genOut.kind = "error"
    /\ Len(call.chunks) = TOP_K
    /\ call.sources = << >>
    /\ Contains(call.answer, call.genOut.text)

\* the thousandths nearest to n / ScoreDen lie within half a thousandth of it
NearestThousandth(m, n) ==
    LET d == 1000 * n - m * ScoreDen IN 2 * d <= ScoreDen /\ 2 * d >= -ScoreDen

\* C4: when generation succeeds, the sources have one entry per point the
\* search retrieved, in the store's order: entry i has the chapter and the
\* section of the i-th point and its score rounded to three decimals; there
\* are at most 3 entries.
C4_SourcesFollowChunks ==
    (IsChat /\ call.genOut.kind = "ok") =>
        /\ Len(call.sources) = Len(call.ids)
        /\ Len(call.sources) = Len(call.chunks)
        /\ Len(call.sources) <= 3
        /\ \A i \in 1..Len(call.sources) :
              LET doc == latest[call.ids[i]].v IN
              /\ call.sources[i].chapter = doc.metadata.chapter
              /\ call.sources[i].section = doc.metadata.section
              /\ call.sources[i].chapter = call.chunks[i].chapter
              /\ NearestThousandth(call.sources[i].score, call.storeOut.score[call.ids[i]])

\* C4 witness: the store holds more than 3 matching points, the search kept
\* the best 3, and the sources list them best first with different scores.
C4_Witness ==
    /\ IsChat
    /\ call.genOut.kind = "ok"
    /\ ~Truthy(call.chapter_filter)
    /\ Cardinality(store) > TOP_K
    /\ Len(call.sources) = TOP_K
    /\ call.sources[1].score > call.sources[2].score
    /\ call.sources[1].section # call.sources[2].section

\* the history text the claim describes: the turns first..last of the history,
\* each a "User: " line and an "Assistant: " line
RECURSIVE TurnLines(_, _, _)
TurnLines(h, first, last) ==
    IF first > last THEN << >>
    ELSE <<NL, "User: ">> \o h[first].question \o <<NL, "Assistant: ">> \o h[first].answer
         \o <<NL>> \o TurnLines(h, first + 1, last)

\* C7: the history text holds exactly the last min(3, length) turns, each as
\* a "User: <question>" line followed by an "Assistant: <answer>" line, in
\* their order, and no earlier turn; without a history, or with an empty one,
\* it is empty. The prompt carries that text.
C7_HistoryLastThree ==
    IsChat =>
        LET h == call.session_history.v
            n == IF call.session_history.given THEN Len(h) ELSE 0
            k == IF n < 3 THEN n ELSE 3
        IN  /\ call.history_text = TurnLines(h, n - k + 1, n)
            /\ \A i \in 1..(n - k) :
                  /\ ~Contains(call.history_text, h[i].question)
                  /\ ~Contains(call.history_text, h[i].answer)
            /\ n = 0 => call.history_text = << >>
            /\ Contains(call.prompt, <<HISTORY_HEADER, NL>> \o call.history_text)

\* C7 witness: a history longer than 3 turns, of which the last 3 are rendered.
C7_Witness ==
    /\ IsChat
    /\ call.session_history.given
    /\ Len(call.session_history.v) > HISTORY_WINDOW
    /\ Contains(call.history_text, Turn(Len(call.session_history.v)).answer)
    /\ Contains(call.history_text, Turn(Len(call.session_history.v) - 2).question)

\* a value interpolated into the prompt of the last call carries the token
Carried(token) ==
    \/ Contains(call.question, <<token>>)
    \/ Contains(call.selected_text.v, <<token>>)
    \/ Contains(call.context, <<token>>)
    \/ Contains(call.history_text, <<token>>)

\* C8, as claimed: with a selected_text passed, whatever its value, the
\* prompt contains it and does not contain the fallback instruction; with
\* none passed, the prompt contains the fallback instruction and no
\* selected-text block; for every question, selected text, chunk and history.
C8_Original ==
    IsChat =>
        IF call.selected_text.given
        THEN /\ Contains(call.prompt, <<SELECTED_HEADER, NL, QUOTE>> \o call.selected_text.v)
             /\ ~Contains(call.prompt, <<FALLBACK_INSTRUCTION>>)
        ELSE /\ Contains(call.prompt, <<FALLBACK_INSTRUCTION>>)
             /\ ~Contains(call.prompt, <<SELECTED_HEADER>>)

\* C8, amended: with a non-empty selected_text the prompt holds the
\* selected-text block with that text verbatim and ends with the focus
\* instruction, and the fallback instruction occurs in it only if an
\* interpolated value (question, selected text, context, history) carries it;
\* with selected_text omitted or empty the prompt ends with the fallback
\* instruction, and a selected-text header occurs in it only if an
\* interpolated value carries it.
C8_PromptVariant ==
    IsChat =>
        LET closing == FORMAT_RULES \o <<NL, NL>> IN
        IF Truthy(call.selected_text)
        THEN /\ Contains(call.prompt,
                         <<ROLE, NL, NL, SELECTED_HEADER, NL, QUOTE>> \o call.selected_text.v
                         \o <<QUOTE, NL, NL, ASKED>> \o call.question)
             /\ Contains(call.prompt, <<FOCUS_INSTRUCTION, NL>> \o closing \o <<ANSWER>>)
             /\ Contains(call.prompt, <<FALLBACK_INSTRUCTION>>) => Carried(FALLBACK_INSTRUCTION)
        ELSE /\ Contains(call.prompt, <<ROLE, NL, NL, USER_QUESTION>> \o call.question)
             /\ Contains(call.prompt,
                         closing \o <<FALLBACK_INSTRUCTION, NL, NL, ANSWER>>)
             /\ Contains(call.prompt, <<SELECTED_HEADER>>) => Carried(SELECTED_HEADER)

\* C8 witness: a selected text was passed, chunks were retrieved, and the
\* prompt holds the selected text and no fallback instruction.
C8_Witness ==
    /\ IsChat
    /\ Truthy(call.selected_text)
    /\ Len(call.chunks) > 0
    /\ call.session_history.given
    /\ Contains(call.prompt, call.selected_text.v)
    /\ ~Contains(call.prompt, <<FALLBACK_INSTRUCTION>>)

\* the vector the last call sent to the vector store
SentVector == IF IsUpsert THEN call.sent[1].vector ELSE call.sent[1].query

Candidates ==
    IF Truthy(call.chapter_filter)
    THEN {p \in store : p.payload.chapter = call.chapter_filter.v}
    ELSE store

C6_Original ==
    ((IsSearch \/ IsChat) /\ call.chapter_filter.given) =>
        /\ Len(call.sent) = 1
        /\ call.sent[1].query_filter =
              Some([key |-> "chapter", value |-> call.chapter_filter.v])
        /\ \A i \in 1..Len(call.chunks) : call.chunks[i].chapter = call.chapter_filter.v

\* C6, amended: whenever a non-empty chapter_filter is passed, the query
\* carries the filter chapter = that value and every returned chunk has that
\* chapter; with the empty string, as with none, the query carries no filter.
C6_NonEmptyFilterApplied ==
    (IsSearch \/ IsChat) =>
        /\ Len(call.sent) = 1
        /\ call.chapter_filter.given /\ call.chapter_filter.v # << >> =>
              /\ call.sent[1].query_filter =
                    Some([key |-> "chapter", value |-> call.chapter_filter.v])
              /\ \A i \in 1..Len(call.chunks) :
                    call.chunks[i].chapter = call.chapter_filter.v
        /\ (~call.chapter_filter.given \/ call.chapter_filter.v = << >>) =>
              ~call.sent[1].query_filter.given

\* C6 witness: a search filtered on chapter "1" over a store that also holds
\* a point of another chapter returned a chunk.
C6_Witness ==
    /\ IsSearch
    /\ call.chapter_filter = Some(<<"1">>)
    /\ \E p \in store : p.payload.chapter # <<"1">>
    /\ Len(call.chunks) > 0
    /\ call.chunks[1].chapter = <<"1">>

\* the value a document's metadata gives a payload field
Field(doc, key) == IF key \in DOMAIN doc.metadata THEN doc.metadata[key] ELSE << >>

\* C9: the store holds exactly one point per id upserted so far and none for
\* any other id; its payload is {text, chapter, section, file_path} of the
\* most recent upsert of the id that returned, a missing field being the
\* empty string; a search returns, for each point the store finds, a chunk
\* with that text and chapter, and finds every point when nothing restricts
\* it.
C9_UpsertRoundTrip ==
    /\ \A id \in DOMAIN latest :
          LET ps == {p \in store : p.id = id} IN
          IF latest[id].given
          THEN /\ Cardinality(ps) = 1
               /\ \A p \in ps :
                     /\ DOMAIN p.payload = {"text", "chapter", "section", "file_path"}
                     /\ p.payload.text = latest[id].v.text
                     /\ \A k \in {"chapter", "section", "file_path"} :
                           p.payload[k] = Field(latest[id].v, k)
          ELSE ps = {}
    /\ \A p \in store : p.id \in DOMAIN latest
    /\ IsSearch =>
          /\ \A i \in 1..Len(call.ids) :
                /\ call.chunks[i].text = latest[call.ids[i]].v.text
                /\ call.chunks[i].chapter = Field(latest[call.ids[i]].v, "chapter")
          /\ (~QueryFailed /\ ~Truthy(call.chapter_filter)
              /\ call.limit >= Cardinality(store)) =>
                {call.ids[i] : i \in 1..Len(call.ids)} = {p.id : p \in store}

\* C9 witness: an upsert replaced the point of its id.
C9_Witness ==
    /\ IsUpsert
    /\ call.existed
    /\ call.changed
    /\ ~call.raised
    /\ Cardinality(store) = NumIds

====
